---- MODULE Spec2Model ----
(***************************************************************************)
(* omlite: Object Mapper for sqLITE (src/omlite.py).                       *)
(*                                                                         *)
(* The model covers the Database handle (connection, open_transactions,    *)
(* the transaction() context manager), the primary key strategies and the  *)
(* CRUD functions get / filter / save / create / _update / delete.  The    *)
(* SQLite engine behind a connection is modelled by the Eng* operators:    *)
(* tables of rows, column affinity of the id column, rowid assignment and  *)
(* the savepoint stack, as the statements issued by omlite.py use them.    *)
(*                                                                         *)
(* Generators follow the semantics of the interpreters the package         *)
(* declares (setup.py: Python 2 and Python 3 of 2014): a StopIteration     *)
(* raised by next(cursor) inside filter() ends the iteration.              *)
(***************************************************************************)
EXTENDS Integers, Sequences, FiniteSets, TLC

(***************************************************************************)
(* Bounds of the model                                                     *)
(***************************************************************************)
\* largest row id the engine hands out for an INTEGER PRIMARY KEY column
MaxRowId == 1
\* number of ids the uuid generator produces
MaxUuid == 2
\* deepest nesting of transaction() scopes
MaxDepth == 2
\* longest savepoint stack of one connection
MaxSavepoints == 2
\* number of times connect() replaces the connection of a handle
MaxConnects == 1

(***************************************************************************)
(* Python values.  A str made of decimal digits is kept apart from the int *)
(* of the same digits: Python compares them unequal, SQLite converts one   *)
(* into the other according to the affinity of the column.                 *)
(***************************************************************************)
None == [k |-> "None", v |-> 0]
IntV(n) == [k |-> "int", v |-> n]
NumStr(n) == [k |-> "numstr", v |-> n]
Str(n) == [k |-> "str", v |-> n]

\* str(uuid_generator()) of the n-th call: a string no caller wrote before
UuidStr(n) == Str(100 + n)

Handles == {"db", "db2"}

\* exceptions in flight; "None" when control flows normally
LookupErrors == {"IndexError", "KeyError"}

(***************************************************************************)
(* Class metadata (StorableMeta) of the mapped classes of the tests        *)
(***************************************************************************)
AutoincrementPrimaryKey == "INTEGER PRIMARY KEY"
UUIDPrimaryKey == "VARCHAR PRIMARY KEY"

\* the metadata when the database decorator leaves the default handle
StorableMeta_default ==
    [A  |-> [primary_key |-> AutoincrementPrimaryKey, database |-> "db",
             table_name |-> "aa"],
     F  |-> [primary_key |-> UUIDPrimaryKey, database |-> "db",
             table_name |-> "fs"],
     A2 |-> [primary_key |-> AutoincrementPrimaryKey, database |-> "db",
             table_name |-> "aa"],
     C  |-> [primary_key |-> AutoincrementPrimaryKey, database |-> "db",
             table_name |-> "a_s"],
     G  |-> [primary_key |-> UUIDPrimaryKey, database |-> "db",
             table_name |-> "gs"]]

\* StorableMeta of each class after its decorators: db unless
\* database(db2) was applied, as it is to A2
StorableMeta ==
    [A  |-> [primary_key |-> AutoincrementPrimaryKey, database |-> "db",
             table_name |-> "aa"],
     F  |-> [primary_key |-> UUIDPrimaryKey, database |-> "db",
             table_name |-> "fs"],
     A2 |-> [primary_key |-> AutoincrementPrimaryKey, database |-> "db2",
             table_name |-> "aa"],
     C  |-> [primary_key |-> AutoincrementPrimaryKey, database |-> "db",
             table_name |-> "a_s"],
     G  |-> [primary_key |-> UUIDPrimaryKey, database |-> "db",
             table_name |-> "gs"]]

get_class_meta(storable_class) == StorableMeta[storable_class]

\* the caller's variables holding mapped instances, and the class of each
ClassOf ==
    [a1 |-> "A", a2 |-> "A", f1 |-> "F", f2 |-> "F", b1 |-> "A2", c1 |-> "C",
     g1 |-> "G"]

get_meta(object) == get_class_meta(object.cls)

\* storable_class(): every declared field initialized to None
NewObject(storable_class) ==
    [cls |-> storable_class, id |-> None, a |-> None]

(***************************************************************************)
(* The SQLite engine                                                       *)
(***************************************************************************)
\* declaration of the id column of each table (create_table)
IdDeclaration ==
    [aa |-> AutoincrementPrimaryKey, fs |-> UUIDPrimaryKey,
     a_s |-> AutoincrementPrimaryKey, gs |-> UUIDPrimaryKey]

\* the table constraint of a_s and gs (sql_constraint): CHECK (a IN (...)); a CHECK
\* rejects a row only when its expression is false, which it is not for NULL
Allowed == {Str(0)}

CheckOk(t, a) == t \in {"a_s", "gs"} => (a = None \/ a \in Allowed)

\* column affinity applied to a value stored in, or compared with, id
Affinity(declaration, value) ==
    IF declaration = AutoincrementPrimaryKey /\ value.k = "numstr"
    THEN IntV(value.v)
    ELSE IF declaration = UUIDPrimaryKey /\ value.k = "int"
         THEN NumStr(value.v)
         ELSE value

MaxOf(S) == CHOOSE x \in S : \A y \in S : y <= x

\* the rowid SQLite picks for a row inserted with a NULL integer key
NextRowId(rows) ==
    IF rows = {} THEN 1 ELSE MaxOf({r.id.v : r \in rows}) + 1

\* rows of table t selected by WHERE id=?
EngWhereId(tables, t, id) ==
    {r \in tables[t] : id # None /\ r.id = Affinity(IdDeclaration[t], id)}

\* INSERT OR REPLACE: a row in the way is replaced, nothing is rejected
EngInsert_or_replace(tables, t, a, id) ==
    LET stored == IF Affinity(IdDeclaration[t], id) = None
                  THEN IntV(NextRowId(tables[t]))
                  ELSE Affinity(IdDeclaration[t], id)
    IN  [err |-> "None",
         tables |-> [tables EXCEPT ![t] =
                        {r \in @ : r.id # stored}
                            \cup {[id |-> stored, a |-> a]}],
         lastrowid |-> stored]

\* INSERT INTO t(a, id) VALUES (?, ?)
EngInsert(tables, t, a, id) ==
    LET stored == Affinity(IdDeclaration[t], id)
        taken  == {r.id : r \in tables[t]}
        added(i) == [tables EXCEPT ![t] = @ \cup {[id |-> i, a |-> a]}]
        failed == [err |-> "IntegrityError", tables |-> tables,
                   lastrowid |-> None]
    IN  IF ~CheckOk(t, a)
        THEN failed
        ELSE IF IdDeclaration[t] = AutoincrementPrimaryKey
        THEN IF stored = None
             THEN LET n == NextRowId(tables[t])
                  IN  [err |-> "None", tables |-> added(IntV(n)),
                       lastrowid |-> IntV(n)]
             ELSE IF stored.k # "int" \/ stored \in taken
                  THEN failed
                  ELSE [err |-> "None", tables |-> added(stored),
                        lastrowid |-> stored]
        ELSE IF stored # None /\ stored \in taken
             THEN failed
             ELSE [err |-> "None", tables |-> added(stored),
                   lastrowid |-> IntV(Cardinality(tables[t]) + 1)]

\* an UPDATE that inserts the row when WHERE selects none
EngUpdate_or_insert(tables, t, a, id, where) ==
    LET hit == EngWhereId(tables, t, where)
        stored == Affinity(IdDeclaration[t], id)
    IN  IF ~CheckOk(t, a) /\ hit # {}
        THEN [err |-> "IntegrityError", tables |-> tables]
        ELSE [err |-> "None",
              tables |-> [tables EXCEPT ![t] =
                             (@ \ hit) \cup {[id |-> stored, a |-> a]}]]

\* UPDATE t SET a = ?, id = ? WHERE id=?
EngUpdate(tables, t, a, id, where) ==
    LET hit == EngWhereId(tables, t, where)
        stored == Affinity(IdDeclaration[t], id)
    IN  IF hit = {}
        THEN [err |-> "None", tables |-> tables]
        ELSE IF ~CheckOk(t, a)
             THEN [err |-> "IntegrityError", tables |-> tables]
             ELSE [err |-> "None",
                   tables |-> [tables EXCEPT ![t] =
                                  (@ \ hit) \cup {[id |-> stored, a |-> a]}]]

\* DELETE FROM t WHERE id=?
EngDelete(tables, t, where) ==
    [tables EXCEPT ![t] = @ \ EngWhereId(tables, t, where)]

\* position of the most recent savepoint of that name, 0 when there is none
SavepointIndex(savepoints, name) ==
    LET at == {i \in 1..Len(savepoints) : savepoints[i].name = name}
    IN  IF at = {} THEN 0 ELSE MaxOf(at)

\* in autocommit mode the engine has a transaction open exactly while a
\* savepoint is open; what is written then is committed when the outermost
\* savepoint is released
InTransaction(c) == c.savepoints # << >>

\* SAVEPOINT name
EngSavepoint(c, name) ==
    [c EXCEPT !.savepoints =
        Append(@, [name |-> name, tables |-> c.tables])]

\* RELEASE SAVEPOINT name
EngRelease(c, name) ==
    LET i == SavepointIndex(c.savepoints, name)
    IN  IF i = 0
        THEN [err |-> "OperationalError", c |-> c]
        ELSE [err |-> "None",
              c |-> [c EXCEPT !.savepoints = SubSeq(@, 1, i - 1)]]

\* ROLLBACK TO SAVEPOINT name: the savepoint stays on the stack
EngRollbackTo(c, name) ==
    LET i == SavepointIndex(c.savepoints, name)
    IN  IF i = 0
        THEN [err |-> "OperationalError", c |-> c]
        ELSE [err |-> "None",
              c |-> [tables |-> c.savepoints[i].tables,
                     savepoints |-> SubSeq(c.savepoints, 1, i)]]

(***************************************************************************)
(* Database.get_cursor and execute_sql: what a call does, in order         *)
(***************************************************************************)
\* one thing a function does: a cursor is opened or closed, a statement is
\* executed with an id among its parameters, a primary key method is called
Ev(ev, sql, id) == [ev |-> ev, sql |-> sql, id |-> id]

Cursor == Ev("cursor", "", None)
Close == Ev("close", "", None)

\* contextlib.closing(cursor).__exit__
closing == <<Close>>

\* a get_cursor whose except clause does not close the cursor
get_cursor_leaking(sql, id, err) ==
    <<Cursor, Ev("execute", sql, id)>>

\* get_cursor: the cursor is opened, the statement executed; when that
\* fails with err the cursor is closed and the failure goes on
get_cursor(sql, id, err) ==
    <<Cursor, Ev("execute", sql, id)>>
        \o (IF err = "None" THEN << >> ELSE <<Close>>)

\* execute_sql: with self.get_cursor(sql, params): pass
execute_sql(sql, id, err) ==
    get_cursor(sql, id, err) \o (IF err = "None" THEN closing ELSE << >>)

\* cursors a call opened and left open
Opened(trace) ==
    Cardinality({i \in DOMAIN trace : trace[i].ev = "cursor"})
        - Cardinality({i \in DOMAIN trace : trace[i].ev = "close"})

(***************************************************************************)
(* Primary key strategies                                                  *)
(***************************************************************************)
\* a generate_id that assigns a new uuid whatever the id is
generate_id_always(primary_key, object, uuids) ==
    IF primary_key = UUIDPrimaryKey
    THEN [object EXCEPT !.id = UuidStr(uuids)]
    ELSE object

\* PrimaryKey.generate_id / UUIDPrimaryKey.generate_id
generate_id(primary_key, object, uuids) ==
    IF primary_key = UUIDPrimaryKey /\ object.id = None
    THEN [object EXCEPT !.id = UuidStr(uuids)]
    ELSE object

\* a save_generated_id that adopts nothing
save_generated_id_skipped(object, lastrowid) == object

\* PrimaryKey.save_generated_id
save_generated_id(object, lastrowid) ==
    IF object.id = None THEN [object EXCEPT !.id = lastrowid] ELSE object

(***************************************************************************)
(* CRUD / Object Mapper: the functions of omlite.py over the state of the  *)
(* connection the class is bound to                                        *)
(***************************************************************************)
\* a read_row that copies the key only
read_row_key_only(storable_class, row) ==
    [NewObject(storable_class) EXCEPT !.id = row.id]

\* read_row: a fresh instance carrying the columns of the row
read_row(storable_class, row) ==
    [NewObject(storable_class) EXCEPT !.id = row.id, !.a = row.a]

\* SQLite sorts NULL first, then numbers, then text
StorageClass(value) ==
    IF value.k = "None" THEN 0 ELSE IF value.k = "int" THEN 1 ELSE 2

\* the rows of a result set in the order the cursor delivers them
RECURSIVE Fetch(_)
Fetch(rows) ==
    IF rows = {}
    THEN << >>
    ELSE LET first == CHOOSE r \in rows : \A q \in rows :
                          \/ StorageClass(r.id) < StorageClass(q.id)
                          \/ /\ StorageClass(r.id) = StorageClass(q.id)
                             /\ r.id.v <= q.id.v
         IN  <<first>> \o Fetch(rows \ {first})

\* filter: the instances the generator yields until next(cursor) stops it,
\* for a caller that takes the end of the generator as the end of the rows;
\* sql_predicate is 'id=?' with one parameter, or the true predicate 1
filter(storable_class, sql_predicate, param, tables) ==
    LET table == get_class_meta(storable_class).table_name
        rows == IF sql_predicate = "id=?"
                THEN EngWhereId(tables, table, param)
                ELSE tables[table]
        cursor == Fetch(rows)
    IN  [i \in 1..Len(cursor) |-> read_row(storable_class, cursor[i])]

\* get_all: filter with the predicate 1, which is true of every row
get_all(storable_class, tables) == filter(storable_class, "1", None, tables)

\* the predicates the engine can evaluate; any other text fails to execute
Predicates == {"id=?", "1"}

\* filter(...): the generator object, before any of its code has run
filter_call(storable_class, sql_predicate, param) ==
    [state |-> "created", storable_class |-> storable_class,
     sql_predicate |-> sql_predicate, param |-> param, cursor |-> << >>,
     yielded |-> << >>]

\* next(generator): a generator just created opens its cursor with
\* get_cursor; then read_row takes the next row of the cursor and the
\* instance is yielded, or next(cursor) raises StopIteration, which leaves
\* the with block, closing the cursor.  What a StopIteration raised inside
\* a generator does is the interpreter's: it ends the generator on Python 2
\* and on Python 3 up to 3.6, and from Python 3.7 on (pep479) it is turned
\* into a RuntimeError raised to the caller of next
filter_next(g, tables, pep479) ==
    LET table == get_class_meta(g.storable_class).table_name
        created == g.state = "created"
        failure == IF created /\ g.sql_predicate \notin Predicates
                   THEN "OperationalError" ELSE "None"
        opened == IF created
                  THEN get_cursor("SELECT", g.param, failure) ELSE << >>
        rows == IF g.sql_predicate = "id=?"
                THEN EngWhereId(tables, table, g.param)
                ELSE tables[table]
        cursor == IF created THEN Fetch(rows) ELSE g.cursor
    IN  IF failure # "None"
        THEN [generator |-> [g EXCEPT !.state = "failed"],
              err |-> failure, trace |-> opened]
        ELSE IF cursor = << >>
             THEN [generator |->
                       [g EXCEPT !.state = IF pep479 THEN "failed"
                                           ELSE "exhausted",
                                 !.cursor = << >>],
                   err |-> IF pep479 THEN "RuntimeError" ELSE "None",
                   trace |-> opened \o closing]
             ELSE [generator |->
                       [g EXCEPT !.state = "suspended",
                                 !.cursor = Tail(cursor),
                                 !.yielded =
                                     Append(@, read_row(g.storable_class,
                                                        Head(cursor)))],
                   err |-> "None", trace |-> opened]

\* generator.close(), by the caller or when the generator is collected:
\* GeneratorExit at the yield leaves the with block, closing the cursor
filter_close(g) ==
    [generator |-> [g EXCEPT !.state = "closed", !.cursor = << >>],
     trace |-> IF g.state = "suspended" THEN closing ELSE << >>]

\* table_exists: with get_cursor(...) as c: return bool(list(c))
table_exists(storable_class, tables) ==
    [result |-> get_class_meta(storable_class).table_name \in DOMAIN tables,
     trace |-> get_cursor("SELECT", None, "None") \o closing]

\* a get that answers an empty instance when no row is found
get_or_empty(storable_class, id, tables) ==
    LET found == filter(storable_class, "id=?", id, tables)
    IN  [err |-> "None",
         object |-> IF Len(found) = 0 THEN NewObject(storable_class)
                    ELSE found[1],
         trace |-> execute_sql("SELECT", id, "None")]

\* get: list(filter(storable_class, 'id=?', id))[0]
get(storable_class, id, tables) ==
    LET found == filter(storable_class, "id=?", id, tables)
        trace == execute_sql("SELECT", id, "None")
    IN  IF Len(found) = 0
        THEN [err |-> "IndexError", object |-> NewObject(storable_class),
              trace |-> trace]
        ELSE [err |-> "None", object |-> found[1], trace |-> trace]

\* a create that calls save_generated_id whether or not the INSERT executed
create_saving_always(object, tables, uuids) ==
    LET meta == get_meta(object)
        generated == generate_id(meta.primary_key, object, uuids)
        used == IF generated = object THEN uuids ELSE uuids + 1
        cursor == EngInsert(tables, meta.table_name, generated.a,
                            generated.id)
        lastrowid == IF cursor.err = "None" THEN cursor.lastrowid
                     ELSE IntV(0)
    IN  [err |-> cursor.err,
         tables |-> IF cursor.err = "None" THEN cursor.tables ELSE tables,
         uuids |-> used,
         object |-> save_generated_id(generated, lastrowid),
         trace |-> <<Ev("generate_id", "", None)>>
                       \o get_cursor("INSERT", generated.id, "None")
                       \o <<Ev("save_generated_id", "", None)>>
                       \o closing]

\* create: generate_id, INSERT, save_generated_id inside the cursor's scope
create(object, tables, uuids) ==
    LET meta == get_meta(object)
        generated == generate_id(meta.primary_key, object, uuids)
        used == IF generated = object THEN uuids ELSE uuids + 1
        cursor == EngInsert(tables, meta.table_name, generated.a,
                            generated.id)
        opened == <<Ev("generate_id", "", None)>>
                      \o get_cursor("INSERT", generated.id, cursor.err)
    IN  IF cursor.err = "None"
        THEN [err |-> "None", tables |-> cursor.tables, uuids |-> used,
              object |-> save_generated_id(generated, cursor.lastrowid),
              trace |-> opened \o <<Ev("save_generated_id", "", None)>>
                               \o closing]
        ELSE [err |-> cursor.err, tables |-> tables, uuids |-> used,
              object |-> generated, trace |-> opened]

\* an _update that issues no statement when the row holds the values
_update_when_changed(object, tables, uuids) ==
    LET meta == get_meta(object)
        cursor == EngUpdate(tables, meta.table_name, object.a, object.id,
                            object.id)
    IN  [err |-> cursor.err, uuids |-> uuids, object |-> object,
         tables |-> cursor.tables,
         trace |-> IF cursor.tables = tables /\ cursor.err = "None"
                   THEN << >>
                   ELSE execute_sql("UPDATE", object.id, cursor.err)]

\* _update: UPDATE of every ordered field, keyed by id
_update(object, tables, uuids) ==
    LET meta == get_meta(object)
        cursor == EngUpdate(tables, meta.table_name, object.a, object.id,
                            object.id)
    IN  [err |-> cursor.err, uuids |-> uuids, object |-> object,
         tables |-> cursor.tables,
         trace |-> execute_sql("UPDATE", object.id, cursor.err)]

\* a save that takes every falsy id for a missing one
save_if_not_id(object, tables, uuids) ==
    IF object.id \in {None, IntV(0)}
    THEN create(object, tables, uuids)
    ELSE _update(object, tables, uuids)

\* save: create when the id is None, _update otherwise
save(object, tables, uuids) ==
    IF object.id = None
    THEN create(object, tables, uuids)
    ELSE _update(object, tables, uuids)

\* delete_but_keep_id
delete_but_keep_id(object, tables) ==
    EngDelete(tables, get_meta(object).table_name, object.id)

\* a delete that leaves the id on the instance
delete_keeps_id(object, tables, uuids) ==
    [err |-> "None", uuids |-> uuids,
     tables |-> delete_but_keep_id(object, tables),
     object |-> object,
     trace |-> execute_sql("DELETE", object.id, "None")]

\* delete: delete_but_keep_id, then the id is set to None
delete(object, tables, uuids) ==
    [err |-> "None", uuids |-> uuids,
     tables |-> delete_but_keep_id(object, tables),
     object |-> [object EXCEPT !.id = None],
     trace |-> execute_sql("DELETE", object.id, "None")]

(***************************************************************************)
(* Database.transaction                                                    *)
(***************************************************************************)
\* one savepoint name for every depth
savepoint_name_fixed(open_transactions) == <<"omlite_", 0>>

\* 'omlite_{}'.format(self.open_transactions)
savepoint_name(open_transactions) == <<"omlite_", open_transactions>>

Sql(statement, name) == [statement |-> statement, name |-> name]

\* the generator before its yield: SAVEPOINT, then the counter goes up
transaction_enter(c, open_transactions) ==
    [c |-> EngSavepoint(c, savepoint_name(open_transactions)),
     open_transactions |-> open_transactions + 1,
     sql |-> <<Sql("SAVEPOINT", savepoint_name(open_transactions))>>]

\* a release that ends the whole transaction, as COMMIT does
release_commits(c, name) ==
    [err |-> "None", c |-> [c EXCEPT !.savepoints = << >>]]

\* execute('RELEASE SAVEPOINT {}'.format(savepoint_name))
release(c, name) == EngRelease(c, name)

\* an except clause that rolls nothing back
rollback_skipped(c, name) == [err |-> "None", c |-> c]

\* an except clause that rolls back to the outermost savepoint
rollback_outermost(c, name) ==
    IF c.savepoints = << >>
    THEN [err |-> "OperationalError", c |-> c]
    ELSE EngRollbackTo(c, c.savepoints[1].name)

\* execute('ROLLBACK TO SAVEPOINT {}'.format(savepoint_name))
rollback(c, name) == EngRollbackTo(c, name)

\* an except clause that ends without raise
reraise_swallowed(caught, failure) == "None"

\* raise: the exception caught goes on, unless the rollback itself failed
reraise(caught, failure) == IF failure = "None" THEN caught ELSE failure

\* a scope that forgets the counter
finally_skipped(open_transactions) == open_transactions

\* finally: self.open_transactions -= 1
finally(open_transactions) == open_transactions - 1

\* the generator after its yield; thrown is the exception the body raised
\* ("None" when the body completed): try / except / finally
transaction_exit(c, open_transactions, name, thrown) ==
    LET released == release(c, name)
        body_ok == thrown = "None"
        try_ok == body_ok /\ released.err = "None"
        caught == IF body_ok THEN released.err ELSE thrown
        after_try == IF body_ok THEN released.c ELSE c
        rolled == rollback(after_try, name)
    IN  IF try_ok
        THEN [c |-> released.c, err |-> "None",
              open_transactions |-> finally(open_transactions),
              sql |-> <<Sql("RELEASE SAVEPOINT", name)>>]
        ELSE [c |-> rolled.c,
              err |-> reraise(caught, rolled.err),
              open_transactions |-> finally(open_transactions),
              sql |-> (IF body_ok
                       THEN <<Sql("RELEASE SAVEPOINT", name)>>
                       ELSE << >>)
                      \o <<Sql("ROLLBACK TO SAVEPOINT", name)>>]

(***************************************************************************)
(* State                                                                   *)
(***************************************************************************)
VARIABLES
    connection,         \* per handle: the tables and savepoints of its engine
    open_transactions,  \* per handle: Database.open_transactions
    objects,            \* the mapped instances the caller holds
    uuid_count,         \* how many ids the uuid generator has produced
    scopes,             \* the active transaction() scopes, innermost last:
                        \* handle, savepoint name, and the rows at entry
    exc,                \* the exception propagating in the caller, or "None"
    last,               \* the operation performed last and its outcome
    pool,               \* the instances the caller works with
    detached,           \* per handle: the connections connect() replaced,
                        \* oldest first, which scopes entered on them still use
    cursors,            \* the number of cursors opened and not closed
    generator           \* the filter() generator the caller holds

vars == <<connection, open_transactions, objects, uuid_count, scopes, exc,
          last, pool, detached, cursors, generator>>

\* the callers of Spec, each working with one instance: the caller of a1
\* wraps its calls in transaction() scopes, the callers of a2 and f1 assign
\* ids of the other type and call outside any scope, the caller of c1
\* assigns values the constraint of its table forbids
Pools == {{"a1"}, {"a2"}, {"f1"}, {"c1"}}

Scoped == {"a1"}

\* the handles on which a caller opens transaction() scopes
Used(instances) ==
    {get_class_meta(ClassOf[o]).database : o \in instances \cap Scoped}

\* values the caller assigns to the id of an instance
IdChoices(o) ==
    IF o \in Scoped
    THEN {None, IntV(1)}
    ELSE IF get_class_meta(ClassOf[o]).primary_key = AutoincrementPrimaryKey
         THEN {None, IntV(0), NumStr(1)}
         ELSE {None, IntV(1), Str(1)}

\* values the caller assigns to the field a of an instance; inside scopes
\* the field stays as make() set it
FieldChoices(o) ==
    IF o \in Scoped THEN {}
    ELSE IF ClassOf[o] \in {"C", "G"} THEN {Str(0), Str(1)} ELSE {Str(1)}

\* make(cls, a=value) of the tests: a new instance with its field assigned
make(storable_class, value) ==
    [NewObject(storable_class) EXCEPT !.a = value]

\* what is remembered of a scope nested in another one: how it ended,
\* whether rows had changed in it by then, and whether the enclosing scope
\* had changed rows before it was entered
NoInner == [outcome |-> "none", wrote |-> FALSE, before |-> FALSE]

\* what the operation performed last was: the function called, the
\* instance or handle it was called on, the id it was about (for a CRUD
\* call the id of the instance before the call), the exception it raised,
\* what it did in order, and whether it changed rows; for the exit of a
\* scope also the exception
\* that entered it, the statements issued, the savepoint name of the scope,
\* whether rows had changed since the scope was entered, what is remembered
\* of the scope nested last in it, and its depth
Done(op, who, id, err) ==
    [op |-> op, who |-> who, id |-> id, err |-> err, thrown |-> "None",
     sql |-> << >>, name |-> << >>, changed |-> FALSE, inner |-> NoInner,
     depth |-> 0, trace |-> << >>]

Idle == Done("", "", None, "None")

\* no generator has been made, or the one made is forgotten
NoGenerator ==
    [state |-> "none", storable_class |-> "", sql_predicate |-> "",
     param |-> None, cursor |-> << >>, yielded |-> << >>]

\* the empty tables create_table makes on a new connection
\* (Test_create_table): aa, fs and a_s in db, aa in db2
SeedTables(h) ==
    IF h = "db"
    THEN [aa |-> {}, fs |-> {}, a_s |-> {}, gs |-> {}]
    ELSE [aa |-> {}]

Init ==
    /\ connection = [h \in Handles |->
                        [tables |-> SeedTables(h), savepoints |-> << >>]]
    /\ open_transactions = [h \in Handles |-> 0]
    /\ objects = [o \in DOMAIN ClassOf |-> make(ClassOf[o], Str(0))]
    /\ pool \in Pools
    /\ uuid_count = 0
    /\ scopes = << >>
    /\ exc = "None"
    /\ last = Idle
    /\ detached = [h \in Handles |-> << >>]
    /\ cursors = 0
    /\ generator = NoGenerator

DbOf(o) == get_meta(objects[o]).database

TableOf(o) == get_class_meta(ClassOf[o]).table_name

(***************************************************************************)
(* The caller: attribute assignment, raise, except                         *)
(***************************************************************************)
SetId(o, value) ==
    /\ exc = "None"
    /\ objects' = [objects EXCEPT ![o].id = value]
    /\ last' = Idle
    /\ UNCHANGED <<connection, open_transactions, uuid_count, scopes, exc,
                   pool>>
    /\ UNCHANGED <<detached, cursors, generator>>

SetField(o, value) ==
    /\ exc = "None"
    /\ objects' = [objects EXCEPT ![o].a = value]
    /\ last' = Idle
    /\ UNCHANGED <<connection, open_transactions, uuid_count, scopes, exc,
                   pool>>
    /\ UNCHANGED <<detached, cursors, generator>>

\* raise TestException() in the body of a transaction() scope
Raise ==
    /\ exc = "None"
    /\ scopes # << >>
    /\ exc' = "TestException"
    /\ last' = Idle
    /\ UNCHANGED <<connection, open_transactions, objects, uuid_count,
                   scopes, pool>>
    /\ UNCHANGED <<detached, cursors, generator>>

\* an except clause of the caller, around the statement that failed
Catch ==
    /\ exc # "None"
    /\ exc' = "None"
    /\ UNCHANGED <<connection, open_transactions, objects, uuid_count,
                   scopes, last, pool>>
    /\ UNCHANGED <<detached, cursors, generator>>

(***************************************************************************)
(* CRUD calls                                                              *)
(***************************************************************************)
\* the effect of a CRUD function on the handle the class is bound to
Apply(op, o, result) ==
    /\ connection' = [connection EXCEPT ![DbOf(o)].tables = result.tables]
    /\ objects' = [objects EXCEPT ![o] = result.object]
    /\ uuid_count' = result.uuids
    /\ exc' = result.err
    /\ last' = [Done(op, o, objects[o].id, result.err) EXCEPT
                   !.changed = (result.tables # connection[DbOf(o)].tables),
                   !.trace = result.trace]
    /\ cursors' = cursors + Opened(result.trace)
    /\ UNCHANGED <<open_transactions, scopes, pool, detached, generator>>

\* the engine and the uuid generator stay inside the bounds of the model
WithinBounds(object, tables) ==
    LET meta == get_meta(object)
    IN  object.id = None =>
            IF meta.primary_key = UUIDPrimaryKey
            THEN uuid_count < MaxUuid
            ELSE NextRowId(tables[meta.table_name]) <= MaxRowId

Create(o) ==
    /\ exc = "None"
    /\ WithinBounds(objects[o], connection[DbOf(o)].tables)
    /\ Apply("create", o,
             create(objects[o], connection[DbOf(o)].tables, uuid_count))

Save(o) ==
    /\ exc = "None"
    /\ WithinBounds(objects[o], connection[DbOf(o)].tables)
    /\ Apply("save", o,
             save(objects[o], connection[DbOf(o)].tables, uuid_count))

Delete(o) ==
    /\ exc = "None"
    /\ Apply("delete", o,
             delete(objects[o], connection[DbOf(o)].tables, uuid_count))

\* ids the caller can ask for: those of its instances, the id the last
\* operation was about, and the preset id 0
KnownIds(storable_class) ==
    {objects[p].id : p \in {q \in pool : ClassOf[q] = storable_class}}
        \cup {last.id}
        \cup (IF storable_class \in {"F", "G"} THEN {} ELSE {IntV(0)})

\* o = get(storable_class, id): o is bound only when get returns
Get(o, id) ==
    /\ exc = "None"
    /\ LET found == get(ClassOf[o], id, connection[DbOf(o)].tables)
       IN  /\ objects' = [objects EXCEPT ![o] =
                             IF found.err = "None" THEN found.object ELSE @]
           /\ exc' = found.err
           /\ last' = [Done("get", o, id, found.err) EXCEPT
                          !.trace = found.trace]
           /\ cursors' = cursors + Opened(found.trace)
    /\ UNCHANGED <<connection, open_transactions, uuid_count, scopes, pool,
                   detached, generator>>

(***************************************************************************)
(* with database.transaction(): ...                                        *)
(***************************************************************************)
TransactionEnter(h) ==
    /\ exc = "None"
    /\ open_transactions[h] < MaxDepth
    /\ Len(connection[h].savepoints) < MaxSavepoints
    /\ LET entered == transaction_enter(connection[h], open_transactions[h])
           frame == [db |-> h,
                     savepoint_name |-> savepoint_name(open_transactions[h]),
                     conn |-> Len(detached[h]),
                     pre |-> connection[h].tables,
                     before |-> /\ scopes # << >>
                                /\ scopes[Len(scopes)].db = h
                                /\ scopes[Len(scopes)].pre #
                                       connection[h].tables,
                     inner |-> NoInner]
       IN  /\ connection' = [connection EXCEPT ![h] = entered.c]
           /\ open_transactions' =
                  [open_transactions EXCEPT ![h] = entered.open_transactions]
           /\ scopes' = Append(scopes, frame)
           /\ last' = [Done("enter", h, None, "None") EXCEPT
                          !.sql = entered.sql, !.name = frame.savepoint_name,
                          !.depth = Len(scopes) + 1]
    /\ UNCHANGED <<objects, uuid_count, exc, pool>>
    /\ UNCHANGED <<detached, cursors, generator>>

Front(s) == SubSeq(s, 1, Len(s) - 1)

\* the innermost scope is left: normally when exc is "None", by the
\* exception in flight otherwise; execute is the method of the connection
\* the handle had when the scope was entered
Leave(thrown) ==
    LET frame == scopes[Len(scopes)]
        h == frame.db
        current == frame.conn = Len(detached[h])
        execute == IF current THEN connection[h]
                   ELSE detached[h][frame.conn + 1]
        left == transaction_exit(execute, open_transactions[h],
                                 frame.savepoint_name, thrown)
        changed == execute.tables # frame.pre
        outcome == [outcome |-> IF left.err = "None" THEN "released"
                                ELSE "rolledback",
                    wrote |-> changed, before |-> frame.before]
    IN  /\ connection' = IF current
                          THEN [connection EXCEPT ![h] = left.c]
                          ELSE connection
        /\ detached' = IF current
                        THEN detached
                        ELSE [detached EXCEPT ![h][frame.conn + 1] = left.c]
        /\ open_transactions' =
               [open_transactions EXCEPT ![h] = left.open_transactions]
        /\ scopes' = IF Len(scopes) = 1
                     THEN << >>
                     ELSE [Front(scopes) EXCEPT
                              ![Len(scopes) - 1].inner = outcome]
        /\ exc' = left.err
        /\ last' = [Done("exit", h, None, left.err) EXCEPT
                       !.thrown = thrown, !.sql = left.sql,
                       !.name = frame.savepoint_name, !.changed = changed,
                       !.inner = frame.inner, !.depth = Len(scopes)]
        /\ UNCHANGED <<objects, uuid_count, pool, cursors, generator>>

\* the body of the innermost scope completes
TransactionExit ==
    /\ exc = "None"
    /\ scopes # << >>
    /\ Leave("None")

\* the exception in flight leaves the body of the innermost scope
TransactionThrow ==
    /\ exc # "None"
    /\ scopes # << >>
    /\ Leave(exc)

Next ==
    \/ \E o \in pool : \E value \in IdChoices(o) : SetId(o, value)
    \/ \E o \in pool : \E value \in FieldChoices(o) : SetField(o, value)
    \/ Raise
    \/ Catch
    \/ \E o \in pool : Create(o)
    \/ \E o \in pool : Save(o)
    \/ \E o \in pool : Delete(o)
    \/ \E o \in pool : \E id \in KnownIds(ClassOf[o]) : Get(o, id)
    \/ \E h \in Used(pool) : TransactionEnter(h)
    \/ TransactionExit
    \/ TransactionThrow

Spec == Init /\ [][Next]_vars

(***************************************************************************)
(* Two handles: db and db2 = Database(), the classes A and A2 mapped to a  *)
(* table of the same name, one in each; create_table                       *)
(***************************************************************************)
\* a database that holds no table
NoTables == [t \in {} |-> {}]

\* sqlite3.connect(':memory:'): a new, empty database in autocommit mode
connect(dbref) == [tables |-> NoTables, savepoints |-> << >>]

\* CREATE TABLE table_name(...) on the connection of the class
create_table(storable_class, tables) ==
    LET t == get_class_meta(storable_class).table_name
    IN  IF t \in DOMAIN tables
        THEN [err |-> "OperationalError", tables |-> tables]
        ELSE [err |-> "None",
              tables |-> [u \in DOMAIN tables \cup {t} |->
                             IF u = t THEN {} ELSE tables[u]]]

\* db as Test_multiple_databases.setUp leaves it: a table aa holding a row
\* 0; db2 as Database() makes it: a database without tables
SetUpConnection(h) ==
    IF h = "db"
    THEN [tables |-> [aa |-> {[id |-> IntV(0), a |-> Str(0)]}],
          savepoints |-> << >>]
    ELSE connect(":memory:")

\* the callers of SpecHandles: one works with an instance of A, the other
\* with an instance of A2; both open their scopes on db2
PoolsHandles == {{"a1"}, {"b1"}}

UsedHandles == {"db2"}

InitHandles ==
    /\ connection = [h \in Handles |-> SetUpConnection(h)]
    /\ open_transactions = [h \in Handles |-> 0]
    /\ objects = [o \in DOMAIN ClassOf |-> make(ClassOf[o], Str(0))]
    /\ pool \in PoolsHandles
    /\ uuid_count = 0
    /\ scopes = << >>
    /\ exc = "None"
    /\ last = Idle
    /\ detached = [h \in Handles |-> << >>]
    /\ cursors = 0
    /\ generator = NoGenerator

\* create_table(type(o))
CreateTable(o) ==
    /\ exc = "None"
    /\ LET made == create_table(ClassOf[o], connection[DbOf(o)].tables)
       IN  /\ connection' =
                  [connection EXCEPT ![DbOf(o)].tables = made.tables]
           /\ exc' = made.err
           /\ last' = [Done("create_table", o, None, made.err) EXCEPT
                          !.changed = made.err = "None"]
    /\ UNCHANGED <<open_transactions, objects, uuid_count, scopes, pool,
                   detached, cursors, generator>>

\* the caller creates the table of a class when the database has none, and
\* uses the class when it has one
HasTable(o) == TableOf(o) \in DOMAIN connection[DbOf(o)].tables

NextHandles ==
    \/ \E o \in pool : ~HasTable(o) /\ CreateTable(o)
    \/ \E o \in pool : HasTable(o) /\ SetField(o, Str(1))
    \/ \E o \in pool : HasTable(o) /\ Create(o)
    \/ \E o \in pool : HasTable(o) /\ Save(o)
    \/ \E o \in pool : HasTable(o) /\ Delete(o)
    \/ \E h \in UsedHandles :
           Len(scopes) < MaxDepth - 1 /\ TransactionEnter(h)
    \/ Raise
    \/ Catch
    \/ TransactionExit
    \/ TransactionThrow

SpecHandles == InitHandles /\ [][NextHandles]_vars

(***************************************************************************)
(* Database.connect on a handle that is in use                             *)
(***************************************************************************)
\* the scopes that were entered on the connection the handle has now
OnCurrent(h) ==
    {i \in 1..Len(scopes) :
        scopes[i].db = h /\ scopes[i].conn = Len(detached[h])}

\* Database.connect: the handle gets a new connection; the one it had stays
\* with the scopes entered on it, and is closed when there is none
Connect(h) ==
    /\ exc = "None"
    /\ Len(detached[h]) < MaxConnects
    /\ connection' = [connection EXCEPT ![h] = connect(":memory:")]
    /\ detached' = [detached EXCEPT ![h] =
                       Append(@, IF OnCurrent(h) = {}
                                 THEN connect(":memory:")
                                 ELSE connection[h])]
    /\ last' = Done("connect", h, None, "None")
    /\ UNCHANGED <<open_transactions, objects, uuid_count, scopes, exc,
                   pool, cursors, generator>>

\* the state after db = Database(); the caller holds no instance
InitConnect ==
    /\ connection = [h \in Handles |-> connect(":memory:")]
    /\ open_transactions = [h \in Handles |-> 0]
    /\ objects = [o \in DOMAIN ClassOf |-> make(ClassOf[o], Str(0))]
    /\ pool = {}
    /\ uuid_count = 0
    /\ scopes = << >>
    /\ exc = "None"
    /\ last = Idle
    /\ detached = [h \in Handles |-> << >>]
    /\ cursors = 0
    /\ generator = NoGenerator

NextConnect ==
    \/ Connect("db")
    \/ TransactionEnter("db")
    \/ Raise
    \/ Catch
    \/ TransactionExit
    \/ TransactionThrow

SpecConnect == InitConnect /\ [][NextConnect]_vars

(***************************************************************************)
(* Two instances of one class, created independently of each other         *)
(***************************************************************************)
\* the callers of SpecPair: one holds two instances of A, the other two of
\* F; they create and delete them, the first one also inside scopes of db
PoolsPair == {{"a1", "a2"}, {"f1", "f2"}}

InitPair ==
    /\ connection = [h \in Handles |->
                        [tables |-> SeedTables(h), savepoints |-> << >>]]
    /\ open_transactions = [h \in Handles |-> 0]
    /\ objects = [o \in DOMAIN ClassOf |-> make(ClassOf[o], Str(0))]
    /\ pool \in PoolsPair
    /\ uuid_count = 0
    /\ scopes = << >>
    /\ exc = "None"
    /\ last = Idle
    /\ detached = [h \in Handles |-> << >>]
    /\ cursors = 0
    /\ generator = NoGenerator

\* create(o) on an instance without id, while the engine has a row id
\* left for each instance held, and the generator a uuid
CreateNext(o) ==
    /\ exc = "None"
    /\ objects[o].id = None
    /\ IF get_meta(objects[o]).primary_key = UUIDPrimaryKey
       THEN uuid_count < MaxUuid
       ELSE NextRowId(connection[DbOf(o)].tables[TableOf(o)])
                <= MaxRowId + 1
    /\ Apply("create", o,
             create(objects[o], connection[DbOf(o)].tables, uuid_count))

\* the instances the caller may pass to a call now: inside a scope only
\* those it uses in scopes
Usable == {o \in pool : scopes = << >> \/ o \in Scoped}

NextPair ==
    \/ \E o \in Usable : CreateNext(o)
    \/ \E o \in Usable : Delete(o)
    \/ \E h \in Used(pool) :
           Len(scopes) < MaxDepth - 1 /\ TransactionEnter(h)
    \/ Raise
    \/ Catch
    \/ TransactionExit
    \/ TransactionThrow

SpecPair == InitPair /\ [][NextPair]_vars

(***************************************************************************)
(* Cursors: the filter() generator, iterated step by step                  *)
(***************************************************************************)
\* the caller of SpecCursor works with one instance of A outside scopes
InitCursor ==
    /\ connection = [h \in Handles |->
                        [tables |-> SeedTables(h), savepoints |-> << >>]]
    /\ open_transactions = [h \in Handles |-> 0]
    /\ objects = [o \in DOMAIN ClassOf |-> make(ClassOf[o], Str(0))]
    /\ pool = {"a2"}
    /\ uuid_count = 0
    /\ scopes = << >>
    /\ exc = "None"
    /\ last = Idle
    /\ detached = [h \in Handles |-> << >>]
    /\ cursors = 0
    /\ generator = NoGenerator

\* the caller does not write while it is iterating
Iterating == generator.state = "suspended"

\* generator = filter(type(o), sql_predicate, param), or get_all(type(o))
Filter(o, sql_predicate, param) ==
    /\ exc = "None"
    /\ ~Iterating
    /\ generator' = filter_call(ClassOf[o], sql_predicate, param)
    /\ last' = Done("filter", o, param, "None")
    /\ UNCHANGED <<connection, open_transactions, objects, uuid_count,
                   scopes, exc, pool, detached, cursors>>

\* next(generator), as a for statement or list() calls it; the
\* StopIteration of a generator that ends is not an error to them
FilterNext(o) ==
    /\ exc = "None"
    /\ generator.state \in {"created", "suspended"}
    /\ generator.storable_class = ClassOf[o]
    /\ \E pep479 \in BOOLEAN :
       LET step == filter_next(generator, connection[DbOf(o)].tables, pep479)
       IN  /\ generator' = step.generator
           /\ exc' = step.err
           /\ cursors' = cursors + Opened(step.trace)
           /\ last' = [Done("next", o, generator.param, step.err) EXCEPT
                          !.trace = step.trace]
    /\ UNCHANGED <<connection, open_transactions, objects, uuid_count,
                   scopes, pool, detached>>

\* the generator is closed before it has ended
FilterClose(o) ==
    /\ exc = "None"
    /\ generator.state \in {"created", "suspended"}
    /\ generator.storable_class = ClassOf[o]
    /\ LET step == filter_close(generator)
       IN  /\ generator' = step.generator
           /\ cursors' = cursors + Opened(step.trace)
           /\ last' = [Done("close", o, generator.param, "None") EXCEPT
                          !.trace = step.trace]
    /\ UNCHANGED <<connection, open_transactions, objects, uuid_count,
                   scopes, exc, pool, detached>>

\* table_exists(type(o))
TableExists(o) ==
    /\ exc = "None"
    /\ LET asked == table_exists(ClassOf[o], connection[DbOf(o)].tables)
       IN  /\ cursors' = cursors + Opened(asked.trace)
           /\ last' = [Done("table_exists", o, None, "None") EXCEPT
                          !.trace = asked.trace]
    /\ UNCHANGED <<connection, open_transactions, objects, uuid_count,
                   scopes, exc, pool, detached, generator>>

NextCursor ==
    \/ \E o \in pool : \E value \in IdChoices(o) :
           ~Iterating /\ SetId(o, value)
    \/ \E o \in pool : ~Iterating /\ Create(o)
    \/ \E o \in pool : ~Iterating /\ Delete(o)
    \/ \E o \in pool : ~Iterating /\ TableExists(o)
    \/ \E o \in pool : \E id \in KnownIds(ClassOf[o]) : Filter(o, "id=?", id)
    \/ \E o \in pool : Filter(o, "1", None)
    \/ \E o \in pool : Filter(o, "no such column", None)
    \/ \E o \in pool : FilterNext(o)
    \/ \E o \in pool : FilterClose(o)
    \/ Catch

SpecCursor == InitCursor /\ [][NextCursor]_vars

(***************************************************************************)
(* Rejected statements: a class with a UUID key and a table constraint     *)
(***************************************************************************)
InitReject ==
    /\ connection = [h \in Handles |->
                        [tables |-> SeedTables(h), savepoints |-> << >>]]
    /\ open_transactions = [h \in Handles |-> 0]
    /\ objects = [o \in DOMAIN ClassOf |-> make(ClassOf[o], Str(0))]
    /\ pool = {"g1"}
    /\ uuid_count = 0
    /\ scopes = << >>
    /\ exc = "None"
    /\ last = Idle
    /\ detached = [h \in Handles |-> << >>]
    /\ cursors = 0
    /\ generator = NoGenerator

NextReject ==
    \/ \E o \in pool : \E value \in IdChoices(o) : SetId(o, value)
    \/ \E o \in pool : \E value \in FieldChoices(o) : SetField(o, value)
    \/ \E o \in pool : Create(o)
    \/ \E o \in pool : Save(o)
    \/ \E o \in pool : Delete(o)
    \/ Catch

SpecReject == InitReject /\ [][NextReject]_vars

(***************************************************************************)
(* Properties                                                              *)
(***************************************************************************)
\* the step leaves the innermost scope by the exception in flight
LeavesByFailure == exc # "None" /\ scopes # << >> /\ Len(scopes') < Len(scopes)

\* the step leaves the innermost scope normally
LeavesNormally == exc = "None" /\ scopes # << >> /\ Len(scopes') < Len(scopes)

Innermost == scopes[Len(scopes)]

\* C1: when a failure propagates out of a transaction() scope, the rows of
\* every table of the handle after the exit equal the rows at the moment the
\* scope was entered.
RollbackRestoresRows ==
    [][LeavesByFailure =>
          connection'[Innermost.db].tables = Innermost.pre]_vars

\* a scope in which rows had changed was left by a failure
RollbackRestoresRowsWitness ==
    /\ last.op = "exit"
    /\ last.thrown # "None"
    /\ last.changed

\* the ids that name a row of the table now but named none in the rows pre
NewIds(h, table, pre) ==
    {r.id : r \in connection[h].tables[table]} \ {r.id : r \in pre[table]}

InnerFailureKeepsOuter ==
    [][/\ (/\ LeavesByFailure
           /\ Len(scopes) > 1
           /\ scopes[Len(scopes) - 1].db = Innermost.db)
          => connection'[Innermost.db].tables = Innermost.pre
       /\ (LeavesNormally /\ Innermost.inner.outcome = "rolledback")
          => /\ exc' = "None"
             /\ connection'[Innermost.db].tables =
                    connection[Innermost.db].tables]_vars

\* a scope was left normally with the rows it had written before a nested
\* scope was entered, after that nested scope had written rows and failed
InnerFailureKeepsOuterWitness ==
    /\ last.op = "exit"
    /\ last.err = "None"
    /\ last.inner.outcome = "rolledback"
    /\ last.inner.wrote
    /\ last.inner.before
    /\ last.changed

\* the scopes of a handle that were entered and not yet left
ActiveScopes(h) == {i \in 1..Len(scopes) : scopes[i].db = h}

\* C4: open_transactions of a handle is never negative and equals the
\* number of scopes of the handle entered and not yet left; entering a scope
\* adds exactly one and leaving it, normally or by failure, takes exactly
\* one away, so the counter is zero when no scope is active.
CounterCountsScopes ==
    /\ [](\A h \in Handles :
              /\ open_transactions[h] >= 0
              /\ open_transactions[h] = Cardinality(ActiveScopes(h)))
    /\ [][\A h \in Handles :
              open_transactions'[h] =
                  IF Len(scopes') > Len(scopes) /\ scopes'[Len(scopes')].db = h
                  THEN open_transactions[h] + 1
                  ELSE IF Len(scopes') < Len(scopes) /\ Innermost.db = h
                       THEN open_transactions[h] - 1
                       ELSE open_transactions[h]]_vars

\* a nested scope was left by a failure and the counter went from 2 to 1
CounterCountsScopesWitness ==
    /\ last.op = "exit"
    /\ last.thrown # "None"
    /\ last.depth = 2
    /\ open_transactions[last.who] = 1

\* C5: a scope never turns a failure into success: when a failure leaves
\* the body, ROLLBACK TO SAVEPOINT of the scope's name is what is issued and
\* the same failure goes on to the caller; RELEASE SAVEPOINT is issued only
\* when the body completed without failure.
FailureIsRepropagated ==
    last.op = "exit" =>
        /\ last.thrown # "None" =>
               /\ last.sql = <<Sql("ROLLBACK TO SAVEPOINT", last.name)>>
               /\ last.err = last.thrown
               /\ exc \in {last.thrown, "None"}
        /\ (\E i \in DOMAIN last.sql :
                last.sql[i].statement = "RELEASE SAVEPOINT")
               => last.thrown = "None"

\* a failure has left a scope and is on its way to the caller
FailureIsRepropagatedWitness ==
    /\ last.op = "exit"
    /\ last.thrown # "None"
    /\ exc = last.thrown

\* get(type, instance.id) returns an instance equal to the one held
RoundTrip(o) ==
    LET found == get(ClassOf[o], objects[o].id, connection[DbOf(o)].tables)
    IN  found.err = "None" /\ found.object = objects[o]

\* the id column stores the id of the instance as the value it is
StoredAsIs(o) ==
    Affinity(IdDeclaration[TableOf(o)], objects[o].id) = objects[o].id

SaveDispatchesOnId ==
    [][(exc = "None" /\ last'.op = "save") =>
          LET o == last'.who
              tables == connection[DbOf(o)].tables
              expected == IF objects[o].id = None
                          THEN create(objects[o], tables, uuid_count)
                          ELSE _update(objects[o], tables, uuid_count)
          IN  /\ connection'[DbOf(o)].tables = expected.tables
              /\ objects'[o] = expected.object
              /\ exc' = expected.err]_vars

\* save updated the row of an instance whose id is 0
SaveDispatchesOnIdWitness ==
    /\ last.op = "save"
    /\ last.id = IntV(0)
    /\ last.err = "None"

ResaveMintsFreshId ==
    [][(/\ exc = "None"
        /\ last.op = "delete"
        /\ last.changed
        /\ last'.op = "save"
        /\ last'.who = last.who) =>
          LET o == last.who
          IN  /\ exc' = "None"
              /\ objects'[o].id \notin {None, last.id}
              /\ [id |-> objects'[o].id, a |-> objects[o].a]
                     \in connection'[DbOf(o)].tables[TableOf(o)]]_vars

BoundTo == [A |-> "db", F |-> "db", A2 |-> "db2", C |-> "db"]

\* the handle the operation performed last was routed through
RoutedThrough(who) ==
    IF who \in Handles THEN who
    ELSE IF who \in DOMAIN ClassOf THEN BoundTo[ClassOf[who]] ELSE "none"

\* C11: every operation routed through one handle (create, update, delete,
\* create_table, entering a scope, release, rollback) leaves the tables,
\* the savepoints and the nesting counter of the other handle as they were,
\* also when both hold a table aa; a CRUD call on an instance acts only on
\* the handle its class is declared for.
HandlesAreIsolated ==
    [][\A h \in Handles :
          h # RoutedThrough(last'.who) =>
              /\ connection'[h] = connection[h]
              /\ open_transactions'[h] = open_transactions[h]]_vars

\* create on an instance of A2 added a row to aa of db2 inside a scope of
\* db2, while db holds its own table aa with a row
HandlesAreIsolatedWitness ==
    /\ last.op = "create"
    /\ last.who = "b1"
    /\ last.changed
    /\ open_transactions["db2"] > 0
    /\ connection["db"].tables["aa"] # {}
    /\ connection["db2"].tables["aa"] # connection["db"].tables["aa"]

\* the row of the table of the instance o whose id is the value id
RowWithId(o, id) ==
    {r \in connection[DbOf(o)].tables[TableOf(o)] : r.id = id}

\* C12 as stated: create(instance) with a non-null id inserts a row whose
\* id equals that value and leaves the id of the instance as it was, for
\* both primary key strategies and whatever the value is.
PresetIdVerbatim ==
    (last.op = "create" /\ last.err = "None" /\ last.id # None) =>
        /\ objects[last.who].id = last.id
        /\ RowWithId(last.who, last.id) # {}

\* C12 amended: create(instance) with a non-null id leaves the id of the
\* instance as it was and inserts a row whose id is that value as the id
\* column stores it: the value itself for an int under INTEGER PRIMARY KEY
\* and for a str under VARCHAR PRIMARY KEY.
PresetIdHonored ==
    (last.op = "create" /\ last.err = "None" /\ last.id # None) =>
        /\ objects[last.who].id = last.id
        /\ RowWithId(last.who,
                     Affinity(IdDeclaration[TableOf(last.who)], last.id))
               = {[id |-> Affinity(IdDeclaration[TableOf(last.who)],
                                   last.id),
                   a |-> objects[last.who].a]}
        /\ StoredAsIs(last.who) => RowWithId(last.who, last.id) # {}

\* create succeeded on an instance of the UUID-keyed class whose id the
\* caller had set to a str
PresetIdHonoredWitness ==
    /\ last.op = "create"
    /\ last.err = "None"
    /\ last.id = Str(1)
    /\ ClassOf[last.who] = "F"

\* C13 as stated, its last part: two instances that create gave their ids
\* never hold the same id.
IdsNeverShared ==
    \A o \in pool : \A p \in pool \ {o} :
        objects[o].id # None => objects[o].id # objects[p].id

\* C13 amended: when create(instance) succeeds on an instance whose id was
\* None, the id of the instance is not None, is the id of the one row the
\* call inserted, and differs from the id of every other row of the table,
\* hence from the id of every other instance that named a row of the table
\* when create was called.
CreateAssignsUnusedId ==
    [][(/\ exc = "None"
        /\ last'.op = "create"
        /\ last'.id = None
        /\ exc' = "None") =>
          LET o == last'.who
              rows == connection[DbOf(o)].tables[TableOf(o)]
              id == objects'[o].id
          IN  /\ id # None
              /\ id \notin {r.id : r \in rows}
              /\ connection'[DbOf(o)].tables[TableOf(o)] =
                     rows \cup {[id |-> id, a |-> objects[o].a]}
              /\ \A p \in pool \ {o} :
                     objects[p].id \in {r.id : r \in rows}
                         => objects'[p].id # id]_vars

\* create gave an instance its id while the other instance of the caller
\* had a row in the table
CreateAssignsUnusedIdWitness ==
    /\ last.op = "create"
    /\ last.id = None
    /\ last.err = "None"
    /\ \A o \in pool : RowWithId(o, objects[o].id) # {}
    /\ Cardinality(connection["db"].tables["aa"]) = 2

ReconnectResetsNesting ==
    last.op = "connect" =>
        /\ open_transactions[last.who] = 0
        /\ \A i \in 1..Len(scopes) :
               scopes[i].db = last.who =>
                   scopes[i].conn = Len(detached[last.who])

\* the engine rejects the INSERT of a row with the field a and the id
Rejects(tables, t, a, id) ==
    LET stored == Affinity(IdDeclaration[t], id)
    IN  \/ ~CheckOk(t, a)
        \/ stored # None /\ stored \in {r.id : r \in tables[t]}
        \/ /\ IdDeclaration[t] = AutoincrementPrimaryKey
           /\ stored.k \notin {"None", "int"}

\* C16: create and save fail with IntegrityError exactly when the engine
\* rejects their INSERT (id in use, CHECK constraint, id of the wrong type)
\* or their UPDATE (CHECK constraint on the row it selects); the rejected
\* statement changes no row; a create of a valid instance without id
\* succeeds whatever failed before; and a scope the error leaves is rolled
\* back to the rows at its entry while the error goes on.
IntegrityErrorPropagates ==
    [][/\ (exc = "None" /\ last'.op \in {"create", "save"}) =>
              LET o == last'.who
                  t == TableOf(o)
                  tables == connection[DbOf(o)].tables
                  inserts == last'.op = "create" \/ objects[o].id = None
                  sent == IF /\ objects[o].id = None
                             /\ IdDeclaration[t] = UUIDPrimaryKey
                          THEN UuidStr(uuid_count) ELSE objects[o].id
                  rejected ==
                      IF inserts
                      THEN Rejects(tables, t, objects[o].a, sent)
                      ELSE /\ ~CheckOk(t, objects[o].a)
                           /\ \E r \in tables[t] :
                                  r.id = Affinity(IdDeclaration[t], sent)
              IN  /\ rejected <=> exc' = "IntegrityError"
                  /\ ~rejected => exc' = "None"
                  /\ rejected => connection' = connection
                  /\ (inserts /\ objects[o].id = None
                              /\ CheckOk(t, objects[o].a)) => exc' = "None"
       /\ (LeavesByFailure /\ exc = "IntegrityError") =>
              /\ connection'[Innermost.db].tables = Innermost.pre
              /\ exc' = "IntegrityError"]_vars

\* an IntegrityError left a scope in which rows had changed
IntegrityErrorPropagatesWitness ==
    /\ last.op = "exit"
    /\ last.thrown = "IntegrityError"
    /\ last.err = "IntegrityError"
    /\ last.changed

\* C17: no cursor leak.  The only cursor that is open between two calls is
\* the cursor of a filter sequence that is being iterated: a statement that
\* fails to execute, execute_sql, create and table_exists have closed every
\* cursor they opened when they return or fail, and a filter sequence that
\* is exhausted, closed or has failed holds no cursor.
NoCursorLeak ==
    /\ cursors = (IF generator.state = "suspended" THEN 1 ELSE 0)
    /\ last.op \notin {"next", "close"} => Opened(last.trace) = 0
    /\ last.err # "None" /\ last.trace # << >> =>
           last.trace[Len(last.trace)] = Close

\* a sequence abandoned after its first instance, its cursor closed
NoCursorLeakWitness ==
    /\ generator.state = "closed"
    /\ Len(generator.yielded) = 1
    /\ last.op = "close"
    /\ last.trace = closing
    /\ cursors = 0

\* the rows a filter sequence is to deliver: those of the table of its
\* class that satisfy its predicate
Matching(g) ==
    LET meta == get_class_meta(g.storable_class)
        tables == connection[meta.database].tables
    IN  IF g.sql_predicate = "id=?"
        THEN EngWhereId(tables, meta.table_name, g.param)
        ELSE tables[meta.table_name]

Yielded(g) == {g.yielded[i] : i \in 1..Len(g.yielded)}

\* a next() that yields: one more instance, of a matching row not yet seen
YieldsOneMore ==
    generator'.state = "suspended" /\ generator' # generator =>
        \E row \in Matching(generator) :
            /\ generator'.yielded =
                   Append(generator.yielded,
                          read_row(generator.storable_class, row))
            /\ read_row(generator.storable_class, row)
                   \notin Yielded(generator)

\* a next() that finds the rows exhausted
RowsExhausted ==
    /\ generator.state \in {"created", "suspended"}
    /\ generator.sql_predicate \in Predicates
    /\ generator'.state \in {"exhausted", "failed"}

\* C18: filter yields one instance for each row that satisfies the
\* predicate, each row once, in one forward pass, and ends without error
\* when the rows are exhausted; get_all is filter with the predicate 1 and
\* yields one instance per row of the table.
FilterYieldsEachRowOnceAndEnds ==
    [][/\ YieldsOneMore
       /\ RowsExhausted =>
              /\ Yielded(generator') =
                     {read_row(generator.storable_class, row) :
                          row \in Matching(generator)}
              /\ Len(generator'.yielded) = Cardinality(Matching(generator))
              /\ generator.sql_predicate = "1" =>
                     generator'.yielded =
                         get_all(generator.storable_class,
                                 connection[get_class_meta(
                                     generator.storable_class).database]
                                     .tables)
              /\ generator'.state = "exhausted"
              /\ exc' = "None"]_vars

\* the positions in the last call's record of what it did at which ev
\* happened, and those at which it executed an INSERT
Positions(ev) == {i \in 1..Len(last.trace) : last.trace[i].ev = ev}

Inserts ==
    {i \in Positions("execute") : last.trace[i].sql = "INSERT"}

\* the id of the instance once generate_id has run: a new uuid for a UUID
\* key that was None, else the id the instance had
IdAfterGenerate ==
    IF get_meta(objects[last.who]).primary_key = UUIDPrimaryKey
           /\ last.id = None
    THEN UuidStr(uuid_count - 1)
    ELSE last.id

\* C19: inside create, generate_id runs before the INSERT is executed, the
\* INSERT carries the id the instance has after generate_id, and
\* save_generated_id runs only after the INSERT has executed successfully;
\* when the INSERT fails save_generated_id is not invoked and the instance
\* adopts no id.
CreateRunsInOrder ==
    Inserts # {} =>
        /\ Cardinality(Inserts) = 1
        /\ Positions("generate_id") = {1}
        /\ \A i \in Inserts : i > 1 /\ last.trace[i].id = IdAfterGenerate
        /\ last.err = "None" =>
               /\ Cardinality(Positions("save_generated_id")) = 1
               /\ \A i \in Inserts : \A j \in Positions("save_generated_id") :
                      i < j
               /\ objects[last.who].id # None
        /\ last.err # "None" =>
               /\ Positions("save_generated_id") = {}
               /\ objects[last.who].id = IdAfterGenerate

\* a create without id that the engine rejected: the id is still None
CreateRunsInOrderWitness ==
    /\ last.op = "create"
    /\ last.err = "IntegrityError"
    /\ last.id = None
    /\ Inserts = {3}
    /\ objects[last.who].id = None

\* the connection a scope's statements are executed on
ExecutesOn(frame) ==
    IF frame.conn = Len(detached[frame.db])
    THEN connection[frame.db]
    ELSE detached[frame.db][frame.conn + 1]

\* C20: a scope entered at nesting depth N of its handle issues SAVEPOINT
\* omlite_N and leaves with RELEASE or ROLLBACK TO of that same name; the
\* names of the scopes of one handle that are active together are pairwise
\* distinct, and the statement that ends a scope finds its own savepoint,
\* above the savepoint of every other active scope.
SavepointNamesAreDisciplined ==
    [][/\ \A i, j \in 1..Len(scopes') :
              i < j /\ scopes'[i].db = scopes'[j].db =>
                  scopes'[i].savepoint_name # scopes'[j].savepoint_name
       /\ Len(scopes') = Len(scopes) + 1 =>
              LET frame == scopes'[Len(scopes')]
                  N == open_transactions[frame.db]
              IN  /\ frame.savepoint_name = <<"omlite_", N>>
                  /\ last'.sql = <<Sql("SAVEPOINT", <<"omlite_", N>>)>>
       /\ Len(scopes') = Len(scopes) - 1 =>
              LET frame == scopes[Len(scopes)]
                  stack == ExecutesOn(frame).savepoints
              IN  /\ last'.sql # << >>
                  /\ \A k \in 1..Len(last'.sql) :
                         /\ last'.sql[k].name = frame.savepoint_name
                         /\ last'.sql[k].statement \in
                                {"RELEASE SAVEPOINT",
                                 "ROLLBACK TO SAVEPOINT"}
                  /\ SavepointIndex(stack, frame.savepoint_name) > 0
                  /\ \A i \in 1..(Len(scopes) - 1) :
                         scopes[i].db = frame.db
                             /\ scopes[i].conn = frame.conn =>
                             SavepointIndex(stack, scopes[i].savepoint_name)
                                 < SavepointIndex(stack,
                                                  frame.savepoint_name)]_vars

\* the inner of two nested scopes of one handle was left by an exception
\* and rolled back to omlite_1 while omlite_0 is active
SavepointNamesAreDisciplinedWitness ==
    /\ last.op = "exit"
    /\ last.thrown # "None"
    /\ last.depth = 2
    /\ last.sql = <<Sql("ROLLBACK TO SAVEPOINT", <<"omlite_", 1>>)>>
    /\ Len(scopes) = 1
    /\ scopes[1].db = last.who
    /\ scopes[1].savepoint_name = <<"omlite_", 0>>

\* C21: the number of savepoints open in the connection of a handle equals
\* the nesting counter of the handle, after scopes exited cleanly or by
\* failure; when the counter is zero the engine has no savepoint and no
\* transaction open, so what is written next is committed.
SavepointsBalanceCounter ==
    \A h \in Handles :
        /\ Len(connection[h].savepoints) = open_transactions[h]
        /\ open_transactions[h] = 0 => ~InTransaction(connection[h])

\* C22: when create fails because the INSERT is rejected, the id of the
\* instance is what it was before the call, for every primary-key
\* strategy: an instance that had no id still has none, so that a later
\* save creates it.
FailedCreateKeepsId ==
    [][(exc = "None" /\ last'.op = "create" /\ last' # last
            /\ exc' = "IntegrityError") =>
           /\ objects'[last'.who].id = objects[last'.who].id
           /\ objects[last'.who].id = None =>
                  save(objects'[last'.who],
                       connection'[DbOf(last'.who)].tables, uuid_count')
                      = create(objects'[last'.who],
                               connection'[DbOf(last'.who)].tables,
                               uuid_count')]_vars

\* the statements the call recorded in op executed
Executed(op) ==
    {op.trace[i].sql : i \in {j \in 1..Len(op.trace) :
                                  op.trace[j].ev = "execute"}}

RowCounts(c) == [t \in DOMAIN c.tables |-> Cardinality(c.tables[t])]

\* C23: update never inserts.  save(instance) with an id that is not None
\* and selects no row of the table leaves every table as it was and raises
\* no error; an UPDATE never changes the number of rows of a table: a step
\* that changes it executed the INSERT of create or the DELETE of delete,
\* or is the rollback of a scope, which undoes them.
UpdateNeverInserts ==
    [][/\ (exc = "None" /\ last'.op = "save" /\ last'.id # None
               /\ last' # last) =>
              LET o == last'.who
              IN  /\ Executed(last') = {"UPDATE"}
                  /\ RowCounts(connection'[DbOf(o)])
                         = RowCounts(connection[DbOf(o)])
                  /\ EngWhereId(connection[DbOf(o)].tables, TableOf(o),
                                objects[o].id) = {} =>
                         /\ connection' = connection
                         /\ exc' = "None"
                         /\ objects' = objects
       /\ \A h \in Handles :
              RowCounts(connection'[h]) # RowCounts(connection[h]) =>
                  \/ /\ last'.op \in {"create", "save"}
                     /\ Executed(last') = {"INSERT"}
                  \/ /\ last'.op = "delete"
                     /\ Executed(last') = {"DELETE"}
                  \/ /\ last'.op = "exit"
                     /\ last'.thrown # "None"]_vars

\* an instance created in a scope that was rolled back kept its id; its
\* save afterwards found no row and stored nothing
UpdateNeverInsertsWitness ==
    /\ last.op = "save"
    /\ last.id # None
    /\ last.err = "None"
    /\ ~last.changed
    /\ scopes = << >>
    /\ connection[DbOf(last.who)].savepoints # << >>
    /\ connection[DbOf(last.who)].tables[TableOf(last.who)] = {}

====
